---------------------------- MODULE Spec2Model ----------------------------
(***************************************************************************)
(* A model of the rank-gated utilities of utils/__init__.py:               *)
(*                                                                         *)
(*   - ResultsStorage.store_results, run by every process of an MPI group  *)
(*     (SPMD).  Each process walks the statements of the method; the       *)
(*     XDMFFile calls are collective: a process that has entered one       *)
(*     leaves it only when every process of the group has entered it.      *)
(*   - ColorPrint.print_* (one action per call).                           *)
(*   - setup_logger_mpi and calls on the logger it returns, with the       *)
(*     level filtering of Python's logging module.                         *)
(*                                                                         *)
(* Assumptions about the environment (they are not in the source):         *)
(*   - whether the archive can be opened is a property of the shared       *)
(*     output directory, so the collective open fails on every rank or on  *)
(*     none;                                                               *)
(*   - the rank-local open() of parameters.yaml and time_data.json, and    *)
(*     the collective writes after a successful open, succeed;             *)
(*   - the output directory holds none of the three files before the call. *)
(***************************************************************************)
EXTENDS Integers, Sequences, FiniteSets, TLC

\* ------------------------------------------------------------------ bounds
MaxProcs == 2      \* largest group size
MaxLen   == 2      \* longest "load" series of the history

VARIABLES
    size,            \* comm.size: the number of processes of the group
    \* --- store_results
    parameters,      \* argument: the parameters mapping
    load,            \* argument: history_data["load"]
    state,           \* argument: field key -> the mesh of that field
    archiveOpenable, \* environment: can simulation_results.xdmf be opened
    pc,              \* per process: the statement it is at
    locals,          \* per process: t, u, alpha
    exc,             \* per process: the exception that left the call
    entered,         \* per collective statement: the ranks that have entered
    oplog,           \* per process: the file operations it has performed
    parametersYaml,  \* <prefix>/parameters.yaml
    archive,         \* <prefix>/simulation_results.xdmf
    timeDataJson,    \* <prefix>/time_data.json
    \* --- ColorPrint
    stdout,          \* events on standard output
    stderr,          \* events on standard error
    printCalls,      \* the ColorPrint calls made so far
    \* --- setup_logger_mpi
    rootPriority,    \* argument root_priority
    logger,          \* per process: the configured logger, its handlers
    consoleOut,      \* per process: records emitted by the console handler
    fileOut,         \* per process: records emitted by the file handler
    logCalls         \* number of calls made on returned loggers

storeVars == <<parameters, load, state, archiveOpenable, pc, locals, exc,
               entered, oplog, parametersYaml, archive, timeDataJson>>
printVars == <<stdout, stderr, printCalls>>
logVars   == <<rootPriority, logger, consoleOut, fileOut, logCalls>>
vars      == <<size, storeVars, printVars, logVars>>

Procs == 0 .. (size - 1)

\* comm.rank == 0
IsCoordinator_Any(p) == TRUE
IsCoordinator(p) == p = 0

\* ------------------------------------------------------------ helpers
\* s[-1]
Last_Head(s) == s[1]
Last(s) == s[Len(s)]

Count(s, x) == Cardinality({i \in 1 .. Len(s) : s[i] = x})

RECURSIVE SeqsUpTo(_, _)
SeqsUpTo(S, n) ==
    IF n = 0 THEN {<<>>}
    ELSE LET shorter == SeqsUpTo(S, n - 1)
         IN  shorter \cup {Append(s, x) : s \in {q \in shorter : Len(q) = n - 1}, x \in S}

\* ================================================== ResultsStorage.store_results
Labels     == {1, 2}            \* the load samples
LoadSeries == SeqsUpTo(Labels, MaxLen)
Keys       == {"u", "alpha", "v"}
Meshes     == {"M1", "M2"}
\* state: a mapping from some field keys to fields; a field is known by its mesh
States     == UNION {[ks -> Meshes] : ks \in SUBSET Keys}
Parameters == {"P1", "P2"}

NoField == [key |-> "", mesh |-> ""]
NoLocals == [t |-> 0, u |-> NoField, alpha |-> NoField]

\* The statements of store_results in program order; "L198x" is the exit of
\* the with block (XDMFFile.close), "returned" the end of the method.
Program_LabelLate ==
    <<"L191", "L192", "L194", "L189", "L198", "L201", "L203", "L204", "L198x",
      "L206", "returned">>
Program_FieldsFirst ==
    <<"L189", "L191", "L192", "L194", "L198", "L203", "L204", "L201", "L198x",
      "L206", "returned">>
Program ==
    <<"L189", "L191", "L192", "L194", "L198", "L201", "L203", "L204", "L198x",
      "L206", "returned">>

NextLine(line) ==
    Program[(CHOOSE i \in 1 .. Len(Program) : Program[i] = line) + 1]

\* The statements that are calls on the XDMFFile: collective over self.comm
CollectiveLines == {"L198", "L201", "L203", "L204", "L198x"}

\* Does process p execute the statement, or does a rank test skip it
RunsLine_MeshOnRoot(p, line) ==
    IF line \in {"L194", "L206", "L201"} THEN IsCoordinator(p) ELSE TRUE
RunsLine(p, line) ==
    IF line \in {"L194", "L206"} THEN IsCoordinator(p) ELSE TRUE

\* What the exit of one XDMFFile(...) constructor call does when it failed
OpenFailure_Swallowed == [pc |-> "L201", exc |-> "none"]
OpenFailure == [pc |-> "raised", exc |-> "IOError"]

AbsentFile    == [exists |-> FALSE, data |-> "", writes |-> 0]
AbsentJson    == [exists |-> FALSE, data |-> <<>>, writes |-> 0]
AbsentArchive == [exists |-> FALSE, open |-> FALSE, entries |-> <<>>]

MeshEntry(m)        == [kind |-> "mesh", key |-> "", mesh |-> m, time |-> 0]
FunctionEntry(f, t) == [kind |-> "function", key |-> f.key, mesh |-> f.mesh, time |-> t]

\* The operation a collective statement performs on the archive, done once
\* for the group when its last process enters
CollectiveEffect(line, l, a) ==
    CASE line = "L198" ->
           IF archiveOpenable
           THEN [exists |-> TRUE, open |-> TRUE, entries |-> <<>>]
           ELSE a
      [] line = "L201" -> [a EXCEPT !.entries = Append(@, MeshEntry(l.u.mesh))]
      [] line = "L203" -> [a EXCEPT !.entries = Append(@, FunctionEntry(l.u, l.t))]
      [] line = "L204" -> [a EXCEPT !.entries = Append(@, FunctionEntry(l.alpha, l.t))]
      [] line = "L198x" -> [a EXCEPT !.open = FALSE]

CollectiveName(line) ==
    CASE line = "L198" -> "XDMFFile"
      [] line = "L201" -> "write_mesh"
      [] line = "L203" -> "write_function"
      [] line = "L204" -> "write_function"
      [] line = "L198x" -> "close"

StoreIdle ==
    /\ parameters = "P1" /\ load = <<>> /\ state = <<>>
    /\ archiveOpenable = TRUE
    /\ pc = [p \in Procs |-> "idle"]
    /\ locals = [p \in Procs |-> NoLocals]
    /\ exc = [p \in Procs |-> "none"]
    /\ entered = [l \in CollectiveLines |-> {}]
    /\ oplog = [p \in Procs |-> <<>>]
    /\ parametersYaml = AbsentFile
    /\ archive = AbsentArchive
    /\ timeDataJson = AbsentJson

PrintIdle == stdout = <<>> /\ stderr = <<>> /\ printCalls = <<>>

LogIdle ==
    /\ rootPriority = 0
    /\ logger = [p \in Procs |-> [configured |-> FALSE, level |-> 0, console |-> 0, file |-> 0]]
    /\ consoleOut = [p \in Procs |-> <<>>]
    /\ fileOut = [p \in Procs |-> <<>>]
    /\ logCalls = 0

\* Every process of the group calls store_results with the same arguments
StoreInit ==
    /\ size \in 1 .. MaxProcs
    /\ parameters \in Parameters
    /\ load \in LoadSeries
    /\ state \in States
    /\ archiveOpenable \in BOOLEAN
    /\ pc = [p \in Procs |-> Program[1]]
    /\ locals = [p \in Procs |-> NoLocals]
    /\ exc = [p \in Procs |-> "none"]
    /\ entered = [l \in CollectiveLines |-> {}]
    /\ oplog = [p \in Procs |-> <<>>]
    /\ parametersYaml = AbsentFile
    /\ archive = AbsentArchive
    /\ timeDataJson = AbsentJson
    /\ PrintIdle
    /\ LogIdle

Raise(p, e) ==
    /\ pc' = [pc EXCEPT ![p] = "raised"]
    /\ exc' = [exc EXCEPT ![p] = e]

Goto(p, line) ==
    /\ pc' = [pc EXCEPT ![p] = line]
    /\ exc' = exc

\* line 189: t = history_data["load"][-1]
ExtractLabel(p) ==
    /\ pc[p] = "L189"
    /\ IF load = <<>>
       THEN Raise(p, "IndexError") /\ locals' = locals
       ELSE Goto(p, NextLine("L189"))
            /\ locals' = [locals EXCEPT ![p].t = Last(load)]
    /\ UNCHANGED <<size, parameters, load, state, archiveOpenable, entered,
                   oplog, parametersYaml, archive, timeDataJson, printVars, logVars>>

\* line 191: u = state["u"]
GetU(p) ==
    /\ pc[p] = "L191"
    /\ IF "u" \in DOMAIN state
       THEN Goto(p, NextLine("L191"))
            /\ locals' = [locals EXCEPT ![p].u = [key |-> "u", mesh |-> state["u"]]]
       ELSE Raise(p, "KeyError") /\ locals' = locals
    /\ UNCHANGED <<size, parameters, load, state, archiveOpenable, entered,
                   oplog, parametersYaml, archive, timeDataJson, printVars, logVars>>

\* line 192: alpha = state["alpha"]
GetAlpha(p) ==
    /\ pc[p] = "L192"
    /\ IF "alpha" \in DOMAIN state
       THEN Goto(p, NextLine("L192"))
            /\ locals' = [locals EXCEPT ![p].alpha =
                              [key |-> "alpha", mesh |-> state["alpha"]]]
       ELSE Raise(p, "KeyError") /\ locals' = locals
    /\ UNCHANGED <<size, parameters, load, state, archiveOpenable, entered,
                   oplog, parametersYaml, archive, timeDataJson, printVars, logVars>>

\* lines 194-196: if self.comm.rank == 0: open(parameters.yaml, 'w'); yaml.dump
WriteParameters(p) ==
    /\ pc[p] = "L194"
    /\ Goto(p, NextLine("L194"))
    /\ IF RunsLine(p, "L194")
       THEN /\ parametersYaml' = [exists |-> TRUE, data |-> parameters,
                                  writes |-> parametersYaml.writes + 1]
            /\ oplog' = [oplog EXCEPT ![p] = Append(@, "open:parameters.yaml")]
       ELSE UNCHANGED <<parametersYaml, oplog>>
    /\ UNCHANGED <<size, parameters, load, state, archiveOpenable, locals,
                   entered, archive, timeDataJson, printVars, logVars>>

\* lines 198-204: a process enters a collective XDMFFile call; the call takes
\* effect on the archive once the whole group is in it
CollectiveEnter(p) ==
    /\ pc[p] \in CollectiveLines
    /\ p \notin entered[pc[p]]
    /\ IF RunsLine(p, pc[p])
       THEN /\ entered' = [entered EXCEPT ![pc[p]] = @ \cup {p}]
            /\ oplog' = [oplog EXCEPT ![p] = Append(@, CollectiveName(pc[p]))]
            /\ archive' = IF entered'[pc[p]] = Procs
                          THEN CollectiveEffect(pc[p], locals[p], archive)
                          ELSE archive
            /\ UNCHANGED <<pc, exc>>
       ELSE /\ Goto(p, NextLine(pc[p]))
            /\ UNCHANGED <<entered, oplog, archive>>
    /\ UNCHANGED <<size, parameters, load, state, archiveOpenable, locals,
                   parametersYaml, timeDataJson, printVars, logVars>>

\* a process leaves the collective call it is in when every rank has entered;
\* a failed open raises out of store_results
CollectiveLeave(p) ==
    /\ pc[p] \in CollectiveLines
    /\ p \in entered[pc[p]]
    /\ entered[pc[p]] = Procs
    /\ IF pc[p] = "L198" /\ ~archiveOpenable
       THEN /\ pc' = [pc EXCEPT ![p] = OpenFailure.pc]
            /\ exc' = [exc EXCEPT ![p] = OpenFailure.exc]
       ELSE Goto(p, NextLine(pc[p]))
    /\ UNCHANGED <<size, parameters, load, state, archiveOpenable, locals,
                   entered, oplog, parametersYaml, archive, timeDataJson,
                   printVars, logVars>>

\* lines 206-208: if self.comm.rank == 0: open(time_data.json, "w"); json.dump
WriteTimeData(p) ==
    /\ pc[p] = "L206"
    /\ Goto(p, NextLine("L206"))
    /\ IF RunsLine(p, "L206")
       THEN /\ timeDataJson' = [exists |-> TRUE, data |-> load,
                                writes |-> timeDataJson.writes + 1]
            /\ oplog' = [oplog EXCEPT ![p] = Append(@, "open:time_data.json")]
       ELSE UNCHANGED <<timeDataJson, oplog>>
    /\ UNCHANGED <<size, parameters, load, state, archiveOpenable, locals,
                   entered, parametersYaml, archive, printVars, logVars>>

StoreStep(p) ==
    \/ ExtractLabel(p)
    \/ GetU(p)
    \/ GetAlpha(p)
    \/ WriteParameters(p)
    \/ CollectiveEnter(p)
    \/ CollectiveLeave(p)
    \/ WriteTimeData(p)

StoreNext ==
    \/ \E p \in Procs : ExtractLabel(p)
    \/ \E p \in Procs : GetU(p)
    \/ \E p \in Procs : GetAlpha(p)
    \/ \E p \in Procs : WriteParameters(p)
    \/ \E p \in Procs : CollectiveEnter(p)
    \/ \E p \in Procs : CollectiveLeave(p)
    \/ \E p \in Procs : WriteTimeData(p)

StoreSpec == StoreInit /\ [][StoreNext]_vars

\* Each process of the group runs on its own: none is starved
StoreFairSpec ==
    StoreSpec /\ \A p \in 0 .. (MaxProcs - 1) : WF_vars(p \in Procs /\ StoreStep(p))

\* ----------------------------------------------------- store_results: claims
AllReturned == \A p \in Procs : pc[p] = "returned"
AllFinished == \A p \in Procs : pc[p] \in {"returned", "raised"}

IsPrefix(s, t) == Len(s) <= Len(t) /\ \A i \in 1 .. Len(s) : s[i] = t[i]
IsArchiveCall(o) == o \in {"XDMFFile", "write_mesh", "write_function", "close"}
CollectiveCalls(p) == SelectSeq(oplog[p], IsArchiveCall)
IsFunctionEntry(e) == e.kind = "function"
FunctionEntries == SelectSeq(archive.entries, IsFunctionEntry)
MeshCount == Cardinality({i \in 1 .. Len(archive.entries) : archive.entries[i].kind = "mesh"})
HasBothFields == {"u", "alpha"} \subseteq DOMAIN state
CallCanSucceed == load # <<>> /\ HasBothFields /\ archiveOpenable
NothingWritten ==
    /\ parametersYaml = AbsentFile
    /\ archive = AbsentArchive
    /\ timeDataJson = AbsentJson
    /\ \A p \in Procs : oplog[p] = <<>>

\* C1: parameters.yaml and time_data.json are opened by rank 0 only, never by
\* another rank and never more than once; when the N calls have returned each
\* of the two files has been written exactly once in total.
C1_CoordinatorOnlyWrites ==
    /\ \A p \in Procs : p # 0 =>
          /\ Count(oplog[p], "open:parameters.yaml") = 0
          /\ Count(oplog[p], "open:time_data.json") = 0
    /\ parametersYaml.writes = Count(oplog[0], "open:parameters.yaml")
    /\ timeDataJson.writes = Count(oplog[0], "open:time_data.json")
    /\ parametersYaml.writes <= 1
    /\ timeDataJson.writes <= 1
    /\ AllReturned => parametersYaml.writes = 1 /\ timeDataJson.writes = 1

C1_Witness ==
    /\ size >= 2
    /\ AllReturned
    /\ parametersYaml.writes = 1
    /\ timeDataJson.writes = 1

\* C2: every rank makes the same archive calls in the same order (open,
\* write_mesh, write_function, write_function, close), whatever its rank, and,
\* each collective call completing once all ranks are in it, every process
\* leaves store_results: it returns whenever the call can succeed.
C2_CollectivesUnconditional ==
    /\ [](\A p, q \in Procs :
            \/ IsPrefix(CollectiveCalls(p), CollectiveCalls(q))
            \/ IsPrefix(CollectiveCalls(q), CollectiveCalls(p)))
    /\ [](AllReturned => \A p \in Procs : CollectiveCalls(p) =
            <<"XDMFFile", "write_mesh", "write_function", "write_function", "close">>)
    /\ <>(AllFinished /\ (CallCanSucceed => AllReturned))

C2_Witness ==
    /\ size >= 2
    /\ AllReturned
    /\ \A p \in Procs : Len(CollectiveCalls(p)) = 5
    /\ \A l \in CollectiveLines : entered[l] = Procs

\* C3 (as claimed): once store_results has returned, the archive holds one
\* field entry tagged with the last load value for every key of state.
C3_EveryKeyWritten ==
    AllReturned =>
        \A k \in DOMAIN state :
            Cardinality({i \in 1 .. Len(archive.entries) :
                /\ archive.entries[i].kind = "function"
                /\ archive.entries[i].key = k
                /\ archive.entries[i].time = load[Len(load)]}) = 1

\* C3 (amended): the archive gets one field entry tagged with the last load
\* value for state["u"] and one for state["alpha"], in that order, and none for
\* any other key of state; a state lacking "u" or "alpha" makes the call raise
\* KeyError before anything is written.
C3_UAndAlphaWritten ==
    /\ AllReturned =>
          FunctionEntries =
              << [kind |-> "function", key |-> "u", mesh |-> state["u"],
                  time |-> load[Len(load)]],
                 [kind |-> "function", key |-> "alpha", mesh |-> state["alpha"],
                  time |-> load[Len(load)]] >>
    /\ ~HasBothFields =>
          /\ NothingWritten
          /\ \A p \in Procs : pc[p] # "returned"
          /\ \A p \in Procs : pc[p] = "raised" => exc[p] \in {"KeyError", "IndexError"}

C3_Witness ==
    /\ AllReturned
    /\ "v" \in DOMAIN state
    /\ Len(load) >= 2
    /\ load[1] # load[Len(load)]
    /\ Len(FunctionEntries) = 2

\* C4: the mesh is written before any field and at most once; once
\* store_results has returned on every process, parameters.yaml holds the
\* parameters, the closed archive holds the mesh once followed by the field
\* snapshots tagged with the checkpoint label, and time_data.json holds the
\* whole history.
C4_ArtifactsComplete ==
    /\ MeshCount <= 1
    /\ archive.entries # <<>> => archive.entries[1].kind = "mesh"
    /\ AllReturned =>
          /\ parametersYaml.exists /\ parametersYaml.data = parameters
          /\ archive.exists /\ ~archive.open
          /\ archive.entries =
                << [kind |-> "mesh", key |-> "", mesh |-> state["u"], time |-> 0],
                   [kind |-> "function", key |-> "u", mesh |-> state["u"],
                    time |-> load[Len(load)]],
                   [kind |-> "function", key |-> "alpha", mesh |-> state["alpha"],
                    time |-> load[Len(load)]] >>
          /\ timeDataJson.exists /\ timeDataJson.data = load

C4_Witness ==
    /\ size >= 2
    /\ AllReturned
    /\ Len(archive.entries) = 3
    /\ timeDataJson.exists

MeshMismatch == \E j, k \in DOMAIN state : state[j] # state[k]

\* C5 (as claimed): a state in which one field's mesh differs from the others'
\* makes the call fail on every rank with nothing written.
C5_MismatchWritesNothing ==
    MeshMismatch =>
        /\ NothingWritten
        /\ \A p \in Procs : pc[p] # "returned"

\* C6: when the archive cannot be opened every rank makes one open attempt and
\* leaves store_results with the I/O error; no write_mesh, write_function,
\* close or time_data.json write happens, and the parameters.yaml rank 0 wrote
\* earlier in the call stays.
C6_OpenFailurePropagates ==
    ~archiveOpenable =>
        /\ \A p \in Procs :
              /\ Count(oplog[p], "XDMFFile") <= 1
              /\ Count(oplog[p], "write_mesh") = 0
              /\ Count(oplog[p], "write_function") = 0
              /\ Count(oplog[p], "close") = 0
              /\ Count(oplog[p], "open:time_data.json") = 0
              /\ pc[p] \notin {"L201", "L203", "L204", "L198x", "L206", "returned"}
              /\ (pc[p] = "raised" /\ Count(oplog[p], "XDMFFile") = 1)
                     => exc[p] = "IOError"
        /\ archive = AbsentArchive
        /\ timeDataJson = AbsentJson
        /\ (\E p \in Procs : exc[p] = "IOError") =>
              /\ parametersYaml.exists
              /\ parametersYaml.data = parameters
              /\ parametersYaml.writes = 1

C6_Witness ==
    /\ ~archiveOpenable
    /\ size >= 2
    /\ \A p \in Procs : pc[p] = "raised" /\ exc[p] = "IOError"
    /\ parametersYaml.exists

\* C10: with an empty "load" series the call fails at its first statement on
\* every rank: no file is created or written and no rank enters a collective
\* archive call.
C10_EmptyLoadFailsFirst ==
    load = <<>> =>
        /\ NothingWritten
        /\ \A l \in CollectiveLines : entered[l] = {}
        /\ \A p \in Procs : pc[p] \in {"L189", "raised"}
        /\ \A p \in Procs : pc[p] = "raised" => exc[p] = "IndexError"

C10_Witness ==
    /\ load = <<>>
    /\ HasBothFields
    /\ size >= 2
    /\ \A p \in Procs : pc[p] = "raised" /\ exc[p] = "IndexError"

\* ================================================================== ColorPrint
MaxCalls == 2      \* ColorPrint calls made by the group

\* the module-level comm.rank == 0 of the print methods
CommRankIsZero_Any(p) == TRUE
CommRankIsZero(p) == p = 0

\* messages and terminators as character sequences
Messages == {<<>>, <<"a">>, <<" ", "a", " ">>, <<" ">>, <<"a", " ", "b">>}
Ends     == {<<"\n">>, <<>>}

IsSpace(c) == c \in {" ", "\t", "\n"}

\* str.strip()
RECURSIVE LStrip(_)
LStrip(s) == IF s # <<>> /\ IsSpace(Head(s)) THEN LStrip(Tail(s)) ELSE s
RECURSIVE RStrip(_)
RStrip(s) ==
    IF s # <<>> /\ IsSpace(s[Len(s)]) THEN RStrip(SubSeq(s, 1, Len(s) - 1)) ELSE s
Strip(s) == RStrip(LStrip(s))

\* "\x1b[1;3Xm" + message.strip() + "\x1b[0m" + end
Colored(code, message, end) ==
    <<"ESC[1;" \o code \o "m">> \o Strip(message) \o <<"ESC[0m">> \o end

WriteFlush(p, text) ==
    << [rank |-> p, kind |-> "write", text |-> text],
       [rank |-> p, kind |-> "flush", text |-> <<>>] >>

\* sys.stderr.write(...); sys.stderr.flush() under the rank test
ToStderr(p, op, text) ==
    /\ Len(printCalls) < MaxCalls
    /\ printCalls' = Append(printCalls, [rank |-> p, op |-> op])
    /\ IF CommRankIsZero(p)
       THEN stderr' = stderr \o WriteFlush(p, text)
       ELSE stderr' = stderr
    /\ stdout' = stdout
    /\ UNCHANGED <<size, storeVars, logVars>>

\* sys.stdout.write(...); sys.stdout.flush() under the rank test
ToStdout(p, op, text) ==
    /\ Len(printCalls) < MaxCalls
    /\ printCalls' = Append(printCalls, [rank |-> p, op |-> op])
    /\ IF CommRankIsZero(p)
       THEN stdout' = stdout \o WriteFlush(p, text)
       ELSE stdout' = stdout
    /\ stderr' = stderr
    /\ UNCHANGED <<size, storeVars, logVars>>

print_fail(p, message, end)  == ToStderr(p, "print_fail", Colored("31", message, end))
print_pass(p, message, end)  == ToStdout(p, "print_pass", Colored("32", message, end))
print_warn(p, message, end)  == ToStderr(p, "print_warn", Colored("33", message, end))
print_info(p, message, end)  == ToStdout(p, "print_info", Colored("34", message, end))
print_color(p, message, end) == ToStdout(p, "print_color", Colored("36", message, end))
print_bold(p, message, end)  == ToStdout(p, "print_bold", Colored("37", message, end))

PrintInit ==
    /\ size \in 1 .. MaxProcs
    /\ StoreIdle
    /\ PrintIdle
    /\ LogIdle

PrintNext ==
    \/ \E p \in Procs, m \in Messages, e \in Ends : print_fail(p, m, e)
    \/ \E p \in Procs, m \in Messages, e \in Ends : print_pass(p, m, e)
    \/ \E p \in Procs, m \in Messages, e \in Ends : print_warn(p, m, e)
    \/ \E p \in Procs, m \in Messages, e \in Ends : print_info(p, m, e)
    \/ \E p \in Procs, m \in Messages, e \in Ends : print_color(p, m, e)
    \/ \E p \in Procs, m \in Messages, e \in Ends : print_bold(p, m, e)

PrintSpec == PrintInit /\ [][PrintNext]_vars

\* ---------------------------------------------------------- ColorPrint: claims
ErrorOps == {"print_fail", "print_warn"}
IsWriteThenFlush(evs) ==
    /\ Len(evs) = 2
    /\ evs[1].kind = "write"
    /\ evs[2].kind = "flush"
    /\ evs[1].rank = 0 /\ evs[2].rank = 0
Grown(old, new) == SubSeq(new, Len(old) + 1, Len(new))

\* what one call, the last of printCalls', did to the two streams
CallEffect ==
    LET c == printCalls'[Len(printCalls')]
    IN  IF c.rank # 0
        THEN stdout' = stdout /\ stderr' = stderr
        ELSE IF c.op \in ErrorOps
             THEN /\ stdout' = stdout
                  /\ IsPrefix(stderr, stderr')
                  /\ IsWriteThenFlush(Grown(stderr, stderr'))
             ELSE /\ stderr' = stderr
                  /\ IsPrefix(stdout, stdout')
                  /\ IsWriteThenFlush(Grown(stdout, stdout'))

\* C7: a ColorPrint call on a rank other than 0 writes and flushes nothing; a
\* call on rank 0 makes exactly one write followed by one flush on one stream,
\* standard error for print_fail and print_warn and standard output for the
\* others; every event on either stream comes from rank 0.
C7_PrintsOnlyOnRankZero ==
    /\ [](\A i \in 1 .. Len(stdout) : stdout[i].rank = 0)
    /\ [](\A i \in 1 .. Len(stderr) : stderr[i].rank = 0)
    /\ [][printCalls' # printCalls => CallEffect]_vars

C7_Witness ==
    /\ size >= 2
    /\ Len(printCalls) = 2
    /\ printCalls[1].rank = 0 /\ printCalls[1].op = "print_warn"
    /\ printCalls[2].rank # 0
    /\ Len(stderr) = 2 /\ stdout = <<>>

\* ============================================================ setup_logger_mpi
MaxLogCalls == 2   \* calls made on the returned loggers by the group

\* the severities of the logging module
INFO     == 20
CRITICAL == 50
\* DEBUG, INFO, WARNING, ERROR, CRITICAL
Severities == {10, INFO, 30, 40, CRITICAL}

\* line 78: root_process_log_level = logging.INFO
root_process_log_level == INFO

\* lines 81, 94, 95: root_process_log_level if rank == 0 else logging.CRITICAL
LevelFor(p) == IF p = 0 THEN root_process_log_level ELSE CRITICAL

Unconfigured == [configured |-> FALSE, level |-> 0, console |-> 0, file |-> 0]

\* Logger.log of the logging module: the logger drops a record below its level,
\* then each handler drops a record below its own level
Passes(lg, handlerLevel, severity) == severity >= lg.level /\ severity >= handlerLevel

EmitAll(lg, out, handlerLevel, severities) ==
    out \o SelectSeq(severities, LAMBDA s : Passes(lg, handlerLevel, s))

\* lines 69-106: the whole of setup_logger_mpi on process p, the three records
\* it logs before returning included
setup_logger_mpi(p) ==
    /\ ~logger[p].configured
    /\ LET lg == [configured |-> TRUE, level |-> LevelFor(p),
                  console |-> LevelFor(p), file |-> LevelFor(p)]
           emitted == <<INFO, INFO, CRITICAL>>
       IN  /\ logger' = [logger EXCEPT ![p] = lg]
           /\ consoleOut' = [consoleOut EXCEPT ![p] = EmitAll(lg, @, lg.console, emitted)]
           /\ fileOut' = [fileOut EXCEPT ![p] = EmitAll(lg, @, lg.file, emitted)]
    /\ UNCHANGED <<size, storeVars, printVars, rootPriority, logCalls>>

\* a later logger.log(severity, ...) on the logger setup_logger_mpi returned
LoggerCall(p, severity) ==
    /\ logger[p].configured
    /\ logCalls < MaxLogCalls
    /\ logCalls' = logCalls + 1
    /\ consoleOut' = [consoleOut EXCEPT ![p] =
                         EmitAll(logger[p], @, logger[p].console, <<severity>>)]
    /\ fileOut' = [fileOut EXCEPT ![p] =
                      EmitAll(logger[p], @, logger[p].file, <<severity>>)]
    /\ UNCHANGED <<size, storeVars, printVars, rootPriority, logger>>

\* Every process of the group calls setup_logger_mpi(root_priority)
LogInit ==
    /\ size \in 1 .. MaxProcs
    /\ StoreIdle
    /\ PrintIdle
    /\ rootPriority \in Severities
    /\ logger = [p \in Procs |-> Unconfigured]
    /\ consoleOut = [p \in Procs |-> <<>>]
    /\ fileOut = [p \in Procs |-> <<>>]
    /\ logCalls = 0

LogNext ==
    \/ \E p \in Procs : setup_logger_mpi(p)
    \/ \E p \in Procs, s \in Severities : LoggerCall(p, s)

LogSpec == LogInit /\ [][LogNext]_vars

\* ---------------------------------------------------- setup_logger_mpi: claims
\* C8 (as claimed): on every rank other than 0, setup_logger_mpi and the calls
\* on the logger it returns emit nothing on the console handler and no record
\* at the file handler.
C8_NonRootRanksSilent ==
    \A p \in Procs : p # 0 => consoleOut[p] = <<>> /\ fileOut[p] = <<>>

\* C9 (as claimed): on rank 0 the logger and both handlers have the level
\* root_priority; on every other rank they have level CRITICAL.
C9_LevelsFollowRootPriority ==
    \A p \in Procs : logger[p].configured =>
        LET expected == IF p = 0 THEN rootPriority ELSE 50
        IN  /\ logger[p].level = expected
            /\ logger[p].console = expected
            /\ logger[p].file = expected

=============================================================================
